---- MODULE Spec2Model ----
(***************************************************************************)
(* Model of multi_pacs_query17_exclude_en.py: the day loop of main(), the  *)
(* per-server retrieval of process_server() with the 4-hour partitioning   *)
(* of query_server_with_4h_blocks(), the modality filter and the           *)
(* missing-series reconciliation that produces the CSV rows.               *)
(*                                                                         *)
(* Conventions.                                                            *)
(*  - A Python list is a sequence, a dict a function on its key set.       *)
(*  - The list returned by query_server() is kept as [recs, anon]: recs    *)
(*    are the records that carry a StudyInstanceUID, in order, and anon    *)
(*    counts the records without one (process_server skips them, line 185, *)
(*    but len() at line 144 counts them).                                  *)
(*  - ",".join(...) and ", ".join(...) are kept as the sequence of joined  *)
(*    tokens; f"{s_uid}({s_mod})" as the pair <<s_uid, s_mod>>.            *)
(*  - Dates are day numbers; times of day are seconds since midnight.      *)
(***************************************************************************)
EXTENDS Integers, Sequences, FiniteSets, TLC

\* ------------------------------------------------------------------ bounds
\* Number of days in the range [start_date, end_date] of the full run.
MaxDays == 2
\* Longest series list a secondary reports in the reconciliation inputs.
MaxSeries == 2

\* ------------------------------------------------------- program constants
SaturationThreshold == 500
NumBlocks == 6
BlockHours == 4
DayEndSec == 86399

\* ----------------------------------------------------------- basic helpers
Range(seq) == { seq[i] : i \in DOMAIN seq }

\* The concatenation of a sequence of sequences.
FlattenSeq(ss) ==
  LET F[n \in 0..Len(ss)] == IF n = 0 THEN <<>> ELSE F[n - 1] \o ss[n]
  IN  F[Len(ss)]

\* The elements of a sequence in the order of their first occurrence.
DedupSeq(seq) ==
  LET D[n \in 0..Len(seq)] ==
        IF n = 0 THEN <<>>
        ELSE IF seq[n] \in Range(D[n - 1]) THEN D[n - 1] ELSE Append(D[n - 1], seq[n])
  IN  D[Len(seq)]

Perms(S) == { f \in [1..Cardinality(S) -> S] : \A i, j \in DOMAIN f : f[i] = f[j] => i = j }

EmptyDict == [u \in {} |-> 0]

\* dict.get(uid, default)
Get(d, key, default) == IF key \in DOMAIN d THEN d[key] ELSE default

\* d[key] = val on a dict
Put(d, key, val) == [x \in DOMAIN d \cup {key} |-> IF x = key THEN val ELSE d[x]]

\* ------------------------------------------------------ modality filtering
\* str.upper() on the modality tokens the model uses.
Upper(m) ==
  CASE m = "ct"   -> "CT"
    [] m = "mr"   -> "MR"
    [] m = "us"   -> "US"
    [] m = "none" -> "NONE"
    [] OTHER      -> m

UpperSet(list) == { Upper(list[i]) : i \in DOMAIN list }

\* sorted() of a set of upper-cased tokens (code point order).
CodeOrder == <<"*", "CT", "MR", "NONE", "US">>
SortedCodes(S) == LET Keep(c) == c \in S IN SelectSeq(CodeOrder, Keep)

modality_list_intersects(modality_list, check_list) ==
  UpperSet(modality_list) \cap UpperSet(check_list) # {}

modality_list_excludes(modality_list, exclude_list) ==
  modality_list_intersects(modality_list, exclude_list)

\* Mutant: the include list decides first, the exclude list only for the rest.
filter_study_include_first(study_modalities, modality_include, modality_exclude) ==
  IF /\ modality_include \notin {<<>>, <<"NONE">>, <<"*">>}
     /\ modality_list_intersects(study_modalities, modality_include)
  THEN TRUE
  ELSE ~ ( /\ modality_exclude # <<>>
           /\ modality_exclude # <<"NONE">>
           /\ modality_list_intersects(study_modalities, modality_exclude) )

filter_study(study_modalities, modality_include, modality_exclude) ==
  IF /\ modality_exclude # <<>>
     /\ modality_exclude # <<"NONE">>
     /\ modality_list_excludes(study_modalities, modality_exclude)
  THEN FALSE
  ELSE IF modality_include \in {<<>>, <<"NONE">>, <<"*">>}
       THEN TRUE
       ELSE modality_list_intersects(study_modalities, modality_include)

\* The per-series condition of lines 268-271.
SeriesKept(s_mod, modality_include, modality_exclude) ==
  /\ \/ modality_exclude = <<"NONE">>
     \/ Upper(s_mod) \notin UpperSet(modality_exclude)
  /\ \/ modality_include = <<"NONE">>
     \/ Upper(s_mod) \in UpperSet(modality_include)

\* ------------------------------------------------- reconciliation of a day
\* Lines 249-255: the upper-cased modalities of a study over every source
\* that reported it (list(set(...)): only the set matters to filter_study).
StudyModalities(uid, tgt, oth) ==
  (IF uid \in DOMAIN tgt THEN UpperSet(tgt[uid].Modalities) ELSE {})
  \cup UNION { UpperSet(oth[uid][i].Modalities) : i \in DOMAIN Get(oth, uid, <<>>) }

\* Lines 246-257.
FilteredUids(tgt, oth, a) ==
  { uid \in DOMAIN tgt \cup DOMAIN oth :
      filter_study(SortedCodes(StudyModalities(uid, tgt, oth)), a.modality, a.exclude) }

\* Mutant: the modality of each target series taken in place of its identifier.
TgtSeriesByModality(uid, tgt) ==
  IF uid \in DOMAIN tgt THEN { s[2] : s \in Range(tgt[uid].SeriesList) } ELSE {}

\* Lines 261-263.
TgtSeries(uid, tgt) ==
  IF uid \in DOMAIN tgt THEN { s[1] : s \in Range(tgt[uid].SeriesList) } ELSE {}

\* Lines 266-274 for one entry of other_studies[uid].
EntryMissing(entry, tgt_series, a) ==
  LET Missing(s) == s[1] \notin tgt_series /\ SeriesKept(s[2], a.modality, a.exclude)
      kept == SelectSeq(entry.SeriesList, Missing)
  IN  [i \in DOMAIN kept |-> <<kept[i][1], kept[i][2], entry.SourceServerAET>>]

\* Lines 264-274: missing_series_map.get(uid, []).
MissingOf(uid, tgt, oth, a) ==
  LET entries == Get(oth, uid, <<>>)
  IN  FlattenSeq([i \in DOMAIN entries |-> EntryMissing(entries[i], TgtSeries(uid, tgt), a)])

\* Lines 259-274.
MissingSeriesMap(filtered, tgt, oth, a) ==
  LET keys == { uid \in filtered : MissingOf(uid, tgt, oth, a) # <<>> }
  IN  [uid \in keys |-> MissingOf(uid, tgt, oth, a)]

\* Lines 300-302 / 337-339: by_srv, as the sequence of its items().
BySrv(miss) ==
  LET aets == DedupSeq([i \in DOMAIN miss |-> miss[i][3]])
      Of(aet) == LET From(m) == m[3] = aet
                     mine == SelectSeq(miss, From)
                 IN  [i \in DOMAIN mine |-> <<mine[i][1], mine[i][2]>>]
  IN  [i \in DOMAIN aets |-> <<aets[i], Of(aets[i])>>]

Row(date, uid, acc, sc, ic, mods, aet, miss) ==
  [StudyDate |-> date, StudyInstanceUID |-> uid, AccessionNumber |-> acc,
   SeriesCount |-> sc, ImagesCount |-> ic, Modality |-> mods,
   SourceServerAET |-> aet, MissingSeries |-> miss]

\* Line 297: the Modality column of a study the target reported.
TargetMods(st) == SortedCodes(UpperSet(st.Modalities))

\* Mutant: only the first entry's modalities are taken.
OtherModsFirst(entries) == SortedCodes(UpperSet(entries[1].Modalities))

\* Lines 332-335: the Modality column of a study only other servers reported.
OtherMods(entries) ==
  SortedCodes(UNION { UpperSet(entries[i].Modalities) : i \in DOMAIN entries })

\* Lines 295-330.
TargetRows(uid, st, miss) ==
  LET mods == TargetMods(st)
      by_srv == BySrv(miss)
  IN  IF miss # <<>>
      THEN [i \in DOMAIN by_srv |->
              Row(st.StudyDate, uid, st.AccessionNumber, st.SeriesCount,
                  st.ImagesCount, mods, by_srv[i][1], by_srv[i][2])]
      ELSE << Row(st.StudyDate, uid, st.AccessionNumber, st.SeriesCount,
                  st.ImagesCount, mods, st.SourceServerAET, <<>>) >>

\* Lines 331-353.
OtherRows(uid, date, entries, miss) ==
  LET mods == OtherMods(entries)
      by_srv == BySrv(miss)
  IN  [i \in DOMAIN by_srv |->
         Row(date, uid, "", 0, 0, mods, by_srv[i][1], by_srv[i][2])]

\* Lines 294-353 for one uid of filtered.
RowsFor(uid, date, tgt, oth, msm) ==
  IF uid \in DOMAIN tgt
  THEN TargetRows(uid, tgt[uid], Get(msm, uid, <<>>))
  ELSE IF uid \in DOMAIN oth
       THEN OtherRows(uid, date, oth[uid], Get(msm, uid, <<>>))
       ELSE <<>>

\* Lines 294-353: the rows of a day, the uids of filtered taken in `order`.
DayRows(order, date, tgt, oth, msm) ==
  FlattenSeq([i \in DOMAIN order |-> RowsFor(order[i], date, tgt, oth, msm)])

\* ----------------------------------------------------------- query layer
\* The configured servers (load_servers): servers[0] is the target.
servers == <<"P", "A", "B">>
target_server == Head(servers)
other_servers == Tail(servers)
Sources == Range(servers)
Secondaries == Range(other_servers)

EmptyResult == [raised |-> FALSE, recs |-> <<>>, anon |-> 0]

\* Mutant: the C-FIND is sent on an association that was not established,
\* which raises.
query_server_unguarded(established, response) ==
  [raised |-> ~established, recs |-> IF established THEN response.recs ELSE <<>>,
   anon |-> IF established THEN response.anon ELSE 0]

\* Lines 61-104: the records of the responses when the association is
\* established, [] when it is not; no exception either way.
query_server(established, response) ==
  IF established
  THEN [raised |-> FALSE, recs |-> response.recs, anon |-> response.anon]
  ELSE EmptyResult

\* Lines 124-135.
query_study_series(established, response) ==
  IF established
  THEN [raised |-> FALSE, series |-> response]
  ELSE [raised |-> FALSE, series |-> <<>>]

\* len(results)
ResultLen(r) == Len(r.recs) + r.anon

\* results.extend(block_results)
Extend(r, b) == [raised |-> r.raised \/ b.raised, recs |-> r.recs \o b.recs,
                 anon |-> r.anon + b.anon]

\* strftime("%H%M%S") of a time of day, as the number HHMMSS.
HHMMSS(t) == (t \div 3600) * 10000 + ((t % 3600) \div 60) * 100 + (t % 60)

\* Lines 54-59: the StudyTime key; "" (here <<>>) for the whole day.
StudyTime(start, end) ==
  IF start # 0 \/ end # DayEndSec THEN <<HHMMSS(start), HHMMSS(end)>> ELSE <<>>

\* Line 149.
BlockStart(i) == i * BlockHours * 3600

\* Mutant: a block ends four hours after it starts.
BlockEndAtNextStart(i) ==
  LET block_end == BlockStart(i) + BlockHours * 3600
  IN  IF block_end > DayEndSec THEN DayEndSec ELSE block_end

\* Lines 150-152 (day_end is 23:59:59.999999; block ends are whole seconds).
BlockEnd(i) ==
  LET block_end == BlockStart(i) + 3 * 3600 + 59 * 60 + 59
  IN  IF block_end > DayEndSec THEN DayEndSec ELSE block_end

\* ------------------------------------------------------------------ state
VARIABLES
  args,            \* [modality, exclude]: --modality and --exclude
  end_date,        \* last day of the range
  current_date,    \* the day main() is processing
  pc,              \* main(): "target" (line 233), "collect" (241-244), "write"
                   \* (276-356), "done", "aborted"
  proc,            \* per server, its process_server() call of the day
  target_studies,  \* line 233
  other_studies,   \* lines 236-244
  collected,       \* the futures as_completed() has yielded
  filtered,        \* lines 247-257
  missing_series_map,  \* lines 259-274
  output,          \* the rows of the CSV file
  saved,           \* the "Saved N records for date D" lines (line 355)
  pacs             \* what each archive answers: study and series level

vars == <<args, end_date, current_date, pc, proc, target_studies, other_studies,
          collected, filtered, missing_series_map, output, saved, pacs>>

Days == 1..MaxDays
Windows == 0..NumBlocks          \* 0: the whole day, i+1: block i

IdleProc == [pc |-> "idle", day |-> 0, i |-> 0, results |-> EmptyResult, k |-> 0,
             studies |-> EmptyDict, qlog |-> <<>>, slast |-> <<>>, refusedAll |-> TRUE]

\* process_server(server, current_date, args) is called.
StartProc(date) == [IdleProc EXCEPT !.pc = "probe", !.day = date]

\* Lines 183-186: after the study-level queries, the loop over srv_results.
AfterStudies(p, r, q, ok) ==
  IF r.raised
  THEN [p EXCEPT !.pc = "raised", !.qlog = q]
  ELSE [p EXCEPT !.pc = IF r.recs = <<>> THEN "done" ELSE "series",
                 !.results = r, !.k = 1, !.qlog = q,
                 !.refusedAll = p.refusedAll /\ ~ok]

\* Lines 140-145: the whole-day query of query_server_with_4h_blocks.
Probe(s) ==
  /\ proc[s].pc = "probe"
  /\ \E established \in BOOLEAN :
       LET p == proc[s]
           partial_results == query_server(established, pacs.studies[s][p.day][0])
           q == << [date |-> p.day, time |-> StudyTime(0, DayEndSec),
                    established |-> established, got |-> partial_results] >>
       IN  proc' = [proc EXCEPT ![s] =
             IF partial_results.raised \/ ResultLen(partial_results) < SaturationThreshold
             THEN AfterStudies(p, partial_results, q, established)
             ELSE [p EXCEPT !.pc = "block", !.i = 0, !.results = EmptyResult,
                            !.qlog = q, !.refusedAll = p.refusedAll /\ ~established]]
  /\ UNCHANGED <<args, end_date, current_date, pc, target_studies, other_studies,
                 collected, filtered, missing_series_map, output, saved, pacs>>

\* Lines 147-155: one iteration of the loop over the six blocks.
Block(s) ==
  /\ proc[s].pc = "block"
  /\ \E established \in BOOLEAN :
       LET p == proc[s]
           block_start == BlockStart(p.i)
           block_end == BlockEnd(p.i)
           block_results == query_server(established, pacs.studies[s][p.day][p.i + 1])
           results == Extend(p.results, block_results)
           q == Append(p.qlog, [date |-> p.day, time |-> StudyTime(block_start, block_end),
                                established |-> established, got |-> block_results])
       IN  proc' = [proc EXCEPT ![s] =
             IF block_results.raised \/ p.i + 1 = NumBlocks
             THEN AfterStudies(p, results, q, established)
             ELSE [p EXCEPT !.i = p.i + 1, !.results = results, !.qlog = q,
                            !.refusedAll = p.refusedAll /\ ~established]]
  /\ UNCHANGED <<args, end_date, current_date, pc, target_studies, other_studies,
                 collected, filtered, missing_series_map, output, saved, pacs>>

\* Lines 190-198: the inventory entry of one study.
StudyEntry(study, series_list, aet) ==
  [SeriesCount |-> study.NumberOfStudyRelatedSeries,
   ImagesCount |-> study.NumberOfStudyRelatedInstances,
   SeriesList |-> series_list,
   StudyDate |-> study.StudyDate,
   AccessionNumber |-> study.AccessionNumber,
   Modalities |-> study.ModalityList,
   SourceServerAET |-> aet]

\* Lines 183-199: one iteration of the loop over srv_results.
Series(s) ==
  /\ proc[s].pc = "series"
  /\ \E established \in BOOLEAN :
       LET p == proc[s]
           study == p.results.recs[p.k]
           uid == study.StudyInstanceUID
           got == query_study_series(established, pacs.series[s][uid])
       IN  proc' = [proc EXCEPT ![s] =
             IF got.raised
             THEN [p EXCEPT !.pc = "raised"]
             ELSE [p EXCEPT !.studies = Put(p.studies, uid, StudyEntry(study, got.series, s)),
                            !.k = p.k + 1,
                            !.pc = IF p.k = Len(p.results.recs) THEN "done" ELSE "series",
                            !.qlog = <<>>,
                            !.slast = <<[uid |-> uid, established |-> established,
                                         got |-> got.series]>>,
                            !.refusedAll = p.refusedAll /\ ~established]]
  /\ UNCHANGED <<args, end_date, current_date, pc, target_studies, other_studies,
                 collected, filtered, missing_series_map, output, saved, pacs>>

\* A query to server s never returns (no timeout is set on the association).
Hang(s) ==
  /\ proc[s].pc \in {"probe", "block", "series"}
  /\ proc' = [proc EXCEPT ![s].pc = "hung"]
  /\ UNCHANGED <<args, end_date, current_date, pc, target_studies, other_studies,
                 collected, filtered, missing_series_map, output, saved, pacs>>

\* Mutant: only the first of the other servers is submitted.
SubmittedFirstOnly == {Head(other_servers)}

\* Lines 238-240: the servers whose process_server is submitted to an executor.
Submitted == Secondaries

\* Lines 233-240: process_server(target_server) has returned; one executor per
\* other server is created and its process_server submitted.
Launch ==
  /\ pc = "target"
  /\ proc[target_server].pc \in {"done", "raised"}
  /\ IF proc[target_server].pc = "raised"
     THEN /\ pc' = "aborted"
          /\ UNCHANGED <<proc, target_studies, other_studies, collected>>
     ELSE /\ pc' = "collect"
          /\ target_studies' = proc[target_server].studies
          /\ other_studies' = EmptyDict
          /\ collected' = {}
          /\ proc' = [s \in Sources |->
                        IF s \in Submitted THEN StartProc(current_date) ELSE proc[s]]
  /\ UNCHANGED <<args, end_date, current_date, filtered, missing_series_map,
                 output, saved, pacs>>

\* Lines 243-244: other_studies.setdefault(uid, []).append(data) for a future.
Merge(oth, studies) ==
  [uid \in DOMAIN oth \cup DOMAIN studies |->
     IF uid \in DOMAIN studies
     THEN Append(Get(oth, uid, <<>>), studies[uid])
     ELSE oth[uid]]

\* Lines 241-244: as_completed() yields the future of server s.
Collect(s) ==
  /\ pc = "collect"
  /\ s \in Secondaries \ collected
  /\ proc[s].pc \in {"done", "raised"}
  /\ IF proc[s].pc = "raised"
     THEN /\ pc' = "aborted"
          /\ UNCHANGED <<other_studies, collected>>
     ELSE /\ other_studies' = Merge(other_studies, proc[s].studies)
          /\ collected' = collected \cup {s}
          /\ pc' = pc
  /\ UNCHANGED <<args, end_date, current_date, proc, target_studies, filtered,
                 missing_series_map, output, saved, pacs>>

\* Mutant: the loop over the futures stops at the first one completed.
FirstJoined == collected # {}

\* Line 241: the loop over as_completed(futures) has ended.
AllJoined == collected = Secondaries

\* Lines 246-274: the studies that pass the filter and their missing series.
Reconcile ==
  /\ pc = "collect"
  /\ AllJoined
  /\ filtered' = FilteredUids(target_studies, other_studies, args)
  /\ missing_series_map' = MissingSeriesMap(filtered', target_studies, other_studies, args)
  /\ pc' = "write"
  /\ UNCHANGED <<args, end_date, current_date, proc, target_studies, other_studies,
                 collected, output, saved, pacs>>

\* Lines 276-356: the rows of the day appended (the uids of the set filtered
\* come in any order), the count printed, the next day started.
Write ==
  /\ pc = "write"
  /\ \E order \in Perms(filtered) :
       /\ output' = output \o DayRows(order, current_date, target_studies, other_studies,
                                      missing_series_map)
       /\ saved' = Append(saved, [date |-> current_date,
                                  written_count |-> Len(output') - Len(output)])
  /\ current_date' = current_date + 1
  /\ IF current_date + 1 <= end_date
     THEN /\ pc' = "target"
          /\ proc' = [proc EXCEPT ![target_server] = StartProc(current_date + 1)]
     ELSE /\ pc' = "done"
          /\ proc' = proc
  /\ UNCHANGED <<args, end_date, target_studies, other_studies, collected, filtered,
                 missing_series_map, pacs>>

\* ------------------------------------------------------ archive contents
\* One record of query_server's result (lines 93-102).
StudyRec(date, uid, acc, nser, nimg, mods) ==
  [StudyDate |-> date, StudyInstanceUID |-> uid,
   NumberOfStudyRelatedInstances |-> nimg, NumberOfStudyRelatedSeries |-> nser,
   AccessionNumber |-> acc, ModalityList |-> mods]

Resp(recs, anon) == [recs |-> recs, anon |-> anon]
NoStudies == Resp(<<>>, 0)

StudyUIDs == {"S1", "S2"}

\* The archives of the full run.  On day 1 server A has at least 500 studies
\* (its whole-day answer saturates, and so does one of its 4-hour blocks).
RunStudies(s, d, w) ==
  CASE s = "P" /\ d = 1 /\ w = 0 ->
         Resp(<<StudyRec(d, "S1", "ACC1", 2, 20, <<"CT">>)>>, 0)
    [] s = "A" /\ d = 1 /\ w = 0 ->
         Resp(<<StudyRec(d, "S1", "ACC1", 2, 30, <<"CT", "MR">>)>>, SaturationThreshold)
    [] s = "A" /\ d = 1 /\ w = 3 ->
         Resp(<<StudyRec(d, "S1", "ACC1", 2, 30, <<"CT", "MR">>)>>, 0)
    [] s = "A" /\ d = 1 /\ w = 5 ->
         Resp(<<>>, SaturationThreshold)
    [] s = "B" /\ w = 0 ->
         Resp(<<StudyRec(d, "S2", "ACC2", 1, 5, <<"us">>)>>, 0)
    [] s = "A" /\ d > 1 /\ w = 0 ->
         Resp(<<StudyRec(d, "S2", "ACC2", 1, 5, <<"US">>)>>, 0)
    [] OTHER -> NoStudies

RunSeries(s, uid) ==
  CASE s = "P" /\ uid = "S1" -> << <<"s1", "CT">>, <<"s2", "CT">> >>
    [] s = "A" /\ uid = "S1" -> << <<"s1", "CT">>, <<"s3", "MR">> >>
    [] s = "A" /\ uid = "S2" -> << <<"s5", "US">> >>
    [] s = "B" /\ uid = "S2" -> << <<"s5", "US">> >>
    [] OTHER -> <<>>

RunPacs ==
  [studies |-> [s \in Sources |-> [d \in Days |-> [w \in Windows |-> RunStudies(s, d, w)]]],
   series  |-> [s \in Sources |-> [uid \in StudyUIDs |-> RunSeries(s, uid)]]]

\* ---------------------------------------------------------- the full run
Init ==
  /\ args = [modality |-> <<"NONE">>, exclude |-> <<"NONE">>]
  /\ end_date = MaxDays
  /\ current_date = 1
  /\ pc = "target"
  /\ proc = [s \in Sources |-> IF s = target_server THEN StartProc(1) ELSE IdleProc]
  /\ target_studies = EmptyDict
  /\ other_studies = EmptyDict
  /\ collected = {}
  /\ filtered = {}
  /\ missing_series_map = EmptyDict
  /\ output = <<>>
  /\ saved = <<>>
  /\ pacs = RunPacs

Next ==
  \/ \E s \in Sources : Probe(s)
  \/ \E s \in Sources : Block(s)
  \/ \E s \in Sources : Series(s)
  \/ \E s \in Sources : Hang(s)
  \/ Launch
  \/ \E s \in Sources : Collect(s)
  \/ Reconcile
  \/ Write

Spec == Init /\ [][Next]_vars

\* Every thread that can take a step eventually takes one; a hang is never forced.
Step(s) == Probe(s) \/ Block(s) \/ Series(s)
FairSpec ==
  /\ Spec
  /\ \A s \in Sources : WF_vars(Step(s)) /\ WF_vars(Collect(s))
  /\ WF_vars(Launch)
  /\ WF_vars(Reconcile)
  /\ WF_vars(Write)

\* ------------------------------------------- the partitioner on its own
\* What the target archive may answer for a window of day 1: nothing, one
\* study, 499, 500 or more records for the whole day; one study or a
\* saturated answer for a block (a refused association gives the empty one).
PartAnswers(w) ==
  IF w = 0
  THEN { NoStudies,
         Resp(<<StudyRec(1, "S1", "ACC0", 1, 1, <<"CT">>)>>, SaturationThreshold - 2),
         Resp(<<StudyRec(1, "S1", "ACC0", 1, 1, <<"CT">>)>>, SaturationThreshold - 1),
         Resp(<<>>, SaturationThreshold + 1) }
  ELSE { Resp(<<StudyRec(1, "S1", "ACC1", w, 1, <<"CT">>)>>, 0),
         Resp(<<StudyRec(1, "S2", "ACC2", w, 1, <<"MR">>)>>, SaturationThreshold - 1) }

InitPart ==
  /\ args = [modality |-> <<"NONE">>, exclude |-> <<"NONE">>]
  /\ end_date = 1
  /\ current_date = 1
  /\ pc = "target"
  /\ proc = [s \in Sources |-> IF s = target_server THEN StartProc(1) ELSE IdleProc]
  /\ target_studies = EmptyDict
  /\ other_studies = EmptyDict
  /\ collected = {}
  /\ filtered = {}
  /\ missing_series_map = EmptyDict
  /\ output = <<>>
  /\ saved = <<>>
  /\ \E a0 \in PartAnswers(0), a1 \in PartAnswers(1), a2 \in PartAnswers(2),
        a3 \in PartAnswers(3), a4 \in PartAnswers(4), a5 \in PartAnswers(5),
        a6 \in PartAnswers(6) :
       pacs = [RunPacs EXCEPT !.studies[target_server][1] =
                 [w \in Windows |-> <<a0, a1, a2, a3, a4, a5, a6>>[w + 1]]]

NextPart ==
  \/ Probe(target_server)
  \/ Block(target_server)

SpecPart == InitPart /\ [][NextPart]_vars

\* ---------------------------------------- the reconciliation on its own
\* Sequences of distinct elements of S, of length at most n.
SeqsUpTo(S, n) ==
  UNION { { f \in [1..k -> S] : \A i, j \in 1..k : f[i] = f[j] => i = j } : k \in 0..n }

\* The inventories process_server may return for one day: per server, the
\* entries it may hold for each study.
EntriesOf(s, uid) ==
  CASE s = "P" /\ uid = "S1" ->
         { StudyEntry(StudyRec(1, uid, "ACC1", 2, 20, mods), sl, s) :
             mods \in { <<"CT">>, <<"ct", "MR">> },
             sl \in { <<>>, << <<"s1", "CT">> >>, << <<"s1", "CT">>, <<"s2", "CT">> >> } }
    [] s = "A" /\ uid = "S1" ->
         { StudyEntry(StudyRec(1, uid, "ACC1", 3, 30, mods), sl, s) :
             mods \in { <<>>, <<"CT">>, <<"MR", "ct">> },
             sl \in SeqsUpTo({ <<"s1", "MR">>, <<"s3", "mr">>, <<"s4", "CT">> }, MaxSeries) }
    [] s = "B" /\ uid = "S1" ->
         { StudyEntry(StudyRec(1, uid, "ACC9", 1, 10, mods), sl, s) :
             mods \in { <<"US">>, <<"CT">> },
             sl \in { <<>>, << <<"s3", "MR">> >>, << <<"s5", "us">> >>, << <<"s2", "CT">> >> } }
    [] s = "B" /\ uid = "S2" ->
         { StudyEntry(StudyRec(1, uid, "ACC2", 1, 5, <<"US">>), << <<"s5", "US">> >>, s) }
    [] OTHER -> {}

Inventories(s) ==
  UNION { { inv \in [U -> UNION { EntriesOf(s, uid) : uid \in U }] :
              \A uid \in U : inv[uid] \in EntriesOf(s, uid) } :
          U \in SUBSET { uid \in StudyUIDs : EntriesOf(s, uid) # {} } }

IncludeLists == { <<"NONE">>, <<"*">>, <<"CT">>, <<"mr", "US">> }
ExcludeLists == { <<"NONE">>, <<"MR">>, <<"ct", "us">> }

DoneProc(date, studies) ==
  [StartProc(date) EXCEPT !.pc = "done", !.studies = studies, !.refusedAll = FALSE]

InitRecon ==
  /\ args \in [modality : IncludeLists, exclude : ExcludeLists]
  /\ end_date = 1
  /\ current_date = 1
  /\ pc = "collect"
  /\ \E invP \in Inventories("P"), invA \in Inventories("A"), invB \in Inventories("B") :
       /\ proc = [s \in Sources |->
                   DoneProc(1, CASE s = "P" -> invP [] s = "A" -> invA [] OTHER -> invB)]
       /\ target_studies = invP
  /\ other_studies = EmptyDict
  /\ collected = {}
  /\ filtered = {}
  /\ missing_series_map = EmptyDict
  /\ output = <<>>
  /\ saved = <<>>
  /\ pacs = RunPacs

NextRecon ==
  \/ \E s \in Sources : Collect(s)
  \/ Reconcile
  \/ Write

SpecRecon == InitRecon /\ [][NextRecon]_vars

\* ================================================================ claims
\* What the claims read off the state.
RowsOf(uid) == { output[i] : i \in { j \in DOMAIN output : output[j].StudyInstanceUID = uid } }
SavedDates == { saved[i].date : i \in DOMAIN saved }
Reporters(uid) == { s \in Sources : proc[s].pc = "done" /\ uid \in DOMAIN proc[s].studies }
\* The upper-cased modality codes every reporting source gave for a study.
ReportedMods(uid) == UNION { UpperSet(proc[s].studies[uid].Modalities) : s \in Reporters(uid) }
\* The series identifiers the primary lists for a study (empty when it did not report it).
PrimarySeriesIds(uid) ==
  IF uid \in DOMAIN proc[target_server].studies
  THEN { proc[target_server].studies[uid].SeriesList[i][1] :
           i \in DOMAIN proc[target_server].studies[uid].SeriesList }
  ELSE {}
SecondarySeries(s, uid) ==
  IF uid \in DOMAIN proc[s].studies THEN Range(proc[s].studies[uid].SeriesList) ELSE {}
Written == pc = "done"

\* C1: a series a secondary reports whose identifier is in the primary's
\* series list of the study is in no MissingSeries cell, whatever its modality
\* there; and every series in a MissingSeries cell has an identifier absent
\* from the primary's series list of that study.
C1_MissingIsIdDifference ==
  Written =>
    /\ \A uid \in StudyUIDs : \A s \in Secondaries : \A ser \in SecondarySeries(s, uid) :
         ser[1] \in PrimarySeriesIds(uid) =>
           \A row \in RowsOf(uid) : \A i \in DOMAIN row.MissingSeries :
              row.MissingSeries[i][1] # ser[1]
    /\ \A uid \in StudyUIDs : \A row \in RowsOf(uid) : \A i \in DOMAIN row.MissingSeries :
         row.MissingSeries[i][1] \notin PrimarySeriesIds(uid)

\* Server A reports s1 as MR, the primary lists s1 as CT, the series passes the
\* per-series check, and A's row for the study lists another series.
C1_Witness ==
  /\ Written
  /\ "S1" \in DOMAIN proc["P"].studies
  /\ <<"s1", "CT">> \in SecondarySeries("P", "S1")
  /\ <<"s1", "MR">> \in SecondarySeries("A", "S1")
  /\ SeriesKept("MR", args.modality, args.exclude)
  /\ \E row \in RowsOf("S1") : row.SourceServerAET = "A" /\ row.MissingSeries # <<>>

\* C2: the Modality column of every row is the sorted, upper-cased,
\* de-duplicated union of the modality codes of all sources that reported the
\* study.
C2_ModalityColumnIsUnion ==
  Written =>
    \A uid \in StudyUIDs : \A row \in RowsOf(uid) :
       row.Modality = SortedCodes(ReportedMods(uid))

\* C3: when the exclude list is not ["NONE"] and shares a code with the
\* upper-cased modality union of a study, no row of the study is written
\* (so none of its series is in a MissingSeries cell), whatever the include list.
C3_ExclusionVeto ==
  Written =>
    \A uid \in StudyUIDs :
      (args.exclude # <<"NONE">> /\ ReportedMods(uid) \cap UpperSet(args.exclude) # {})
        => RowsOf(uid) = {}

\* The include list names a modality of S1, the exclude list another one.
C3_Witness ==
  /\ Written
  /\ args.modality = <<"CT">>
  /\ args.exclude = <<"MR">>
  /\ {"CT", "MR"} \subseteq ReportedMods("S1")
  /\ RowsOf("S1") = {}
  /\ \E s \in Secondaries : SecondarySeries(s, "S1") # {}

\* C4: a study some secondary reports, the primary does not, and whose
\* modality union passes the study-level filter has at least one row, with
\* AccessionNumber blank and SeriesCount and ImagesCount zero.
C4_SecondaryOnlyStudyHasRow ==
  Written =>
    \A uid \in StudyUIDs :
      ( /\ Reporters(uid) \cap Secondaries # {}
        /\ uid \notin DOMAIN proc[target_server].studies
        /\ filter_study(SortedCodes(ReportedMods(uid)), args.modality, args.exclude) )
      => \E row \in RowsOf(uid) :
           row.AccessionNumber = "" /\ row.SeriesCount = 0 /\ row.ImagesCount = 0

\* C5: a secondary series of a surviving study whose identifier is not in the
\* primary's list is reported missing exactly when filter_study passes the
\* one-element modality list of that series.
C5_SeriesCheckIsFilterStudy ==
  Written =>
    \A uid \in FilteredUids(target_studies, other_studies, args) :
      \A s \in Secondaries : \A ser \in SecondarySeries(s, uid) :
        ser[1] \notin PrimarySeriesIds(uid) =>
          ( (\E row \in RowsOf(uid) :
               row.SourceServerAET = s /\ ser \in Range(row.MissingSeries))
            <=> filter_study(<<ser[2]>>, args.modality, args.exclude) )

\* The inventories of the other servers merged in the order of the server list.
RECURSIVE MergeAll(_, _)
MergeAll(oth, srvs) ==
  IF srvs = <<>> THEN oth
  ELSE MergeAll(Merge(oth, proc[Head(srvs)].studies), Tail(srvs))
ListedOrder == MergeAll(EmptyDict, other_servers)
ListedRows ==
  LET f == FilteredUids(target_studies, ListedOrder, args)
      order == CHOOSE o \in Perms(f) : TRUE
  IN  DayRows(order, saved[Len(saved)].date, target_studies, ListedOrder,
              MissingSeriesMap(f, target_studies, ListedOrder, args))

\* C9: whatever the order in which the futures of the other servers complete,
\* every study's modality union, the set of studies that pass the filter and
\* the rows written (as a set) are those of the servers taken in listed order.
C9_ReconcileCommutes ==
  Written =>
    /\ \A uid \in StudyUIDs :
         StudyModalities(uid, target_studies, other_studies)
           = StudyModalities(uid, target_studies, ListedOrder)
    /\ FilteredUids(target_studies, other_studies, args)
         = FilteredUids(target_studies, ListedOrder, args)
    /\ Range(output) = Range(ListedRows)
    /\ Len(output) = Len(ListedRows)

\* Server B completed before server A, both report S1 with different
\* modalities, the primary does not, and each has a row.
C9_Witness ==
  /\ Written
  /\ "S1" \in DOMAIN other_studies
  /\ "S1" \notin DOMAIN target_studies
  /\ Len(other_studies["S1"]) = 2
  /\ other_studies["S1"][1].SourceServerAET = "B"
  /\ UpperSet(other_studies["S1"][1].Modalities) # UpperSet(other_studies["S1"][2].Modalities)
  /\ Cardinality({ row.SourceServerAET : row \in RowsOf("S1") }) = 2

\* HHMMSS back to seconds since midnight.
Secs(h) == (h \div 10000) * 3600 + ((h \div 100) % 100) * 60 + (h % 100)
RECURSIVE SumAnon(_)
SumAnon(q) == IF q = <<>> THEN 0 ELSE Head(q).got.anon + SumAnon(Tail(q))
StudyPhaseOver(s) == proc[s].pc \in {"series", "done"} /\ proc[s].qlog # <<>>

\* C6: one study-level query, the whole day, its result returned as is, when
\* it returns fewer than 500 records; otherwise seven: the whole day, discarded,
\* then the windows [4i h, 4i h + 3:59:59] for i = 0..5, concatenated, which
\* tile 00:00:00-23:59:59 second by second, none of them subdivided.
C6_OneOrSevenQueries ==
  \A s \in Sources :
    LET q == proc[s].qlog
    IN  /\ Len(q) <= 7
        /\ q # <<>> => q[1].time = <<>>
        /\ \A i \in DOMAIN q : q[i].date = proc[s].day
        /\ proc[s].pc = "block" => Len(q) = proc[s].i + 1 /\ ResultLen(q[1].got) >= 500
        /\ StudyPhaseOver(s) =>
             IF ResultLen(q[1].got) < 500
             THEN Len(q) = 1 /\ proc[s].results = q[1].got
             ELSE /\ Len(q) = 7
                  /\ \A i \in 0..5 :
                       q[i + 2].time = <<HHMMSS(4 * i * 3600), HHMMSS(4 * i * 3600 + 14399)>>
                  /\ Secs(q[2].time[1]) = 0
                  /\ Secs(q[7].time[2]) = 86399
                  /\ \A i \in 2..6 : Secs(q[i + 1].time[1]) = Secs(q[i].time[2]) + 1
                  /\ proc[s].results.recs =
                       FlattenSeq([i \in 1..6 |-> q[i + 1].got.recs])
                  /\ proc[s].results.anon = SumAnon(Tail(q))

\* The whole day saturated, so did a block, and the seven queries are done.
C6_Witness ==
  LET q == proc[target_server].qlog
  IN  /\ StudyPhaseOver(target_server)
      /\ Len(q) = 7
      /\ \E i \in 2..7 : ResultLen(q[i].got) >= 500
      /\ \E i \in 2..7 : ~q[i].established
      /\ proc[target_server].results.recs # <<>>

AnyHung == \E s \in Sources : proc[s].pc = "hung"

\* C7: a refused association gives the empty result at study and at series
\* level, a server all of whose queries are refused contributes the empty
\* inventory, nothing raises, the run is never aborted, it can always go on
\* (unless a query hangs) and it ends only with every day of the range saved.
C7_ConnectionFailureNeverAborts ==
  /\ pc # "aborted"
  /\ \A s \in Sources :
       /\ proc[s].pc # "raised"
       /\ \A i \in DOMAIN proc[s].qlog :
            ~proc[s].qlog[i].established => proc[s].qlog[i].got = EmptyResult
       /\ \A i \in DOMAIN proc[s].slast :
            ~proc[s].slast[i].established =>
               /\ proc[s].slast[i].got = <<>>
               /\ proc[s].studies[proc[s].slast[i].uid].SeriesList = <<>>
       /\ (proc[s].pc = "done" /\ proc[s].refusedAll) => proc[s].studies = EmptyDict
  /\ pc = "done" => [i \in DOMAIN saved |-> saved[i].date] = [i \in 1..end_date |-> i]
  /\ (pc # "done" /\ ~AnyHung) => ENABLED Next

\* Day 1 wrote no row (no server could be reached for what it holds), the
\* last day was still processed: server B was refused throughout it and the
\* rows of the other servers were appended.
C7_Witness ==
  /\ pc = "done"
  /\ saved[1].written_count = 0
  /\ proc["B"].day = end_date
  /\ proc["B"].refusedAll
  /\ proc["B"].pc = "done"
  /\ \E i \in DOMAIN output : output[i].StudyDate = end_date

InProgress(s) == proc[s].pc \in {"probe", "block", "series", "hung"}

Hung(s) == proc[s].pc = "hung"
Completed(s) == proc[s].pc = "done" /\ proc[s].day = current_date
OthersFinish(s) == \A t \in Sources \ {s} : Completed(t) \/ Hung(t)
DayUnwritten(s) == proc[s].day = current_date /\ current_date \notin SavedDates /\ pc # "done"

\* C10 as stated: whichever server has a query that never returns, the runs
\* of all the other servers for that day are launched and complete, and the
\* day is not written.
C10_AnyHangOthersFinish ==
  \A s \in Sources : [](Hung(s) => (DayUnwritten(s) /\ <>OthersFinish(s)))

\* C10 amended: that holds when the hanging server is one of the other
\* servers (the target's run had completed before they were launched); when
\* the target hangs, no other server's run is launched for that day, and the
\* day is not written.
C10_SecondaryHangOthersFinish ==
  /\ \A s \in Secondaries : [](Hung(s) => (DayUnwritten(s) /\ <>OthersFinish(s)))
  /\ [](Hung(target_server) =>
          /\ DayUnwritten(target_server)
          /\ \A t \in Secondaries : proc[t].day # current_date)

\* Server A hangs in a block query of day 1 while server B's run is complete
\* and already collected.
C10_Witness ==
  /\ Hung("A")
  /\ proc["A"].i > 0
  /\ Completed("B")
  /\ proc["B"].studies # EmptyDict
  /\ Completed(target_server)
  /\ "B" \in collected
  /\ pc = "collect"

====
